---- MODULE Spec2Model ----
(***************************************************************************)
(* Generalized spherical Mercator projection (package gm): the constructor *)
(* New and the projectors Project and Unproject, as a state machine over   *)
(* one frame.                                                              *)
(*                                                                         *)
(* NUMBERS.  A float64 is modelled by its leading term (n/d) * h^e, where  *)
(* n/d is a rational, h is the square root of u and u = 1e-17 is the unit  *)
(* in which the residues of the trigonometric conversions are counted:     *)
(* math.Cos(math.Pi/2) is 6.123e-17 = 6 u, math.Sin(math.Pi) is            *)
(* 1.2246e-16 = 12 u and the tolerance epsilon = 1e-15 is 100 u.  The      *)
(* order e counts halves of an order of u, so that a number whose square   *)
(* is a residue is a number of the model.  Terms of the same order are     *)
(* added exactly.  In a sum of terms of different orders the term of lower *)
(* order absorbs the other one when that one is below its last place, as   *)
(* IEEE rounding does; when it is not, the sum is not a number of the      *)
(* model.                                                                  *)
(* Products and quotients are exact: the rounding of the last place of a   *)
(* result is not modelled.                                                 *)
(* Zero is signed, +Inf, -Inf and NaN are values.  A square root that is   *)
(* not rational, or a rational whose terms exceed MaxNum, is the value     *)
(* "irr": no input whose result would hold it is offered to an operation.  *)
(*                                                                         *)
(* ANGLES.  A float64 holding an angle in radians is modelled by the pair  *)
(* (cosine, sine) of that angle; the sign of a zero sine tells 0 from -0   *)
(* and pi from -pi.  A planar y is modelled by e^y (ey): y = +Inf is       *)
(* ey = +Inf, y = -Inf is ey = 0, y = 0 is ey = 1.                         *)
(***************************************************************************)
EXTENDS Integers, Sequences, FiniteSets, TLC

(* ------------------------------ integers ------------------------------ *)

RECURSIVE Gcd(_, _)
Gcd(a, b) == IF b = 0 THEN a ELSE Gcd(b, a % b)

RECURSIVE SqrtIter(_, _)
SqrtIter(n, x) ==
  LET y == (x + (n \div x)) \div 2
  IN  IF y >= x THEN x ELSE SqrtIter(n, y)

ISqrt(n) == IF n < 2 THEN n ELSE SqrtIter(n, n)

IsSquare(n) == ISqrt(n) * ISqrt(n) = n

\* The largest numerator and denominator a number of the model holds.
MaxNum == 1000000000

\* The product a*b of two naturals is within MaxNum.
Fits(a, b) == a = 0 \/ b <= MaxNum \div a

\* a/b compared with c/d (b, d > 0) by their continued fractions:
\* -1, 0 or 1.
RECURSIVE CmpRat(_, _, _, _)
CmpRat(a, b, c, d) ==
  LET q1 == a \div b
      q2 == c \div d
      r1 == a % b
      r2 == c % d
  IN  IF q1 < q2 THEN -1
      ELSE IF q1 > q2 THEN 1
      ELSE IF r1 = 0 THEN (IF r2 = 0 THEN 0 ELSE -1)
      ELSE IF r2 = 0 THEN 1
      ELSE CmpRat(d, r2, b, r1)

(* ------------------------------ float64 ------------------------------- *)

\* The finite number s * (n/d) * u^e, n/d reduced by g.
Reduced(s, n, d, e, g) ==
  [k |-> "fin", s |-> s, n |-> n \div g, d |-> d \div g, e |-> e]

Fin(s, n, d, e) ==
  IF n = 0
  THEN [k |-> "fin", s |-> s, n |-> 0, d |-> 1, e |-> 0]
  ELSE Reduced(s, n, d, e, Gcd(n, d))

Inf(s) == [k |-> "inf", s |-> s, n |-> 1, d |-> 1, e |-> 0]
NaN == [k |-> "nan", s |-> 1, n |-> 0, d |-> 1, e |-> 0]
Irr == [k |-> "irr", s |-> 1, n |-> 0, d |-> 1, e |-> 0]

\* The rational n/d (d > 0), and the residue n * u.
Rat(n, d) == Fin(IF n < 0 THEN -1 ELSE 1, IF n < 0 THEN -n ELSE n, d, 0)
Res(n) == Fin(IF n < 0 THEN -1 ELSE 1, IF n < 0 THEN -n ELSE n, 1, 2)
\* n * h, a number whose square is the residue n^2 * u.
HalfRes(n) == Fin(IF n < 0 THEN -1 ELSE 1, IF n < 0 THEN -n ELSE n, 1, 1)
Zero == Rat(0, 1)
NegZero == Fin(-1, 0, 1, 0)
One == Rat(1, 1)

IsZero(x) == x.k = "fin" /\ x.n = 0
IsNaN(x) == x.k = "nan"
IsIrr(x) == x.k = "irr"
Ordered(x) == x.k \in {"fin", "inf"}

\* math.IsInf(x, sign)
IsInf(x, sign) == x.k = "inf" /\ (sign = 0 \/ x.s = sign)

Neg(x) == IF Ordered(x) THEN [x EXCEPT !.s = -x.s] ELSE x

\* math.Abs
Abs(x) == IF Ordered(x) THEN [x EXCEPT !.s = 1] ELSE x

\* math.Copysign(x, y): x with the sign bit of y (the sign bit of -0 is set).
Copysign(x, y) ==
  IF IsIrr(x) \/ IsIrr(y) THEN Irr
  ELSE IF IsNaN(x) THEN NaN
  ELSE [x EXCEPT !.s = y.s]

\* The sign of the value: 0 for both zeros.
SignOf(x) == IF IsZero(x) THEN 0 ELSE x.s

CmpMag(x, y) ==
  IF x.k = "inf" THEN (IF y.k = "inf" THEN 0 ELSE 1)
  ELSE IF y.k = "inf" THEN -1
  ELSE IF x.n = 0 THEN (IF y.n = 0 THEN 0 ELSE -1)
  ELSE IF y.n = 0 THEN 1
  ELSE IF x.e < y.e THEN 1
  ELSE IF x.e > y.e THEN -1
  ELSE CmpRat(x.n, x.d, y.n, y.d)

Cmp(x, y) ==
  IF SignOf(x) # SignOf(y) THEN (IF SignOf(x) < SignOf(y) THEN -1 ELSE 1)
  ELSE IF SignOf(x) = 0 THEN 0
  ELSE SignOf(x) * CmpMag(x, y)

\* The comparisons of Go: false when an operand is NaN.
Lt(x, y) == Ordered(x) /\ Ordered(y) /\ Cmp(x, y) = -1
Le(x, y) == Ordered(x) /\ Ordered(y) /\ Cmp(x, y) <= 0
Eq(x, y) == Ordered(x) /\ Ordered(y) /\ Cmp(x, y) = 0

\* The number num/den * u^e of a signed numerator.
Signed(num, den, e) ==
  IF num = 0 THEN Zero
  ELSE IF num < 0 THEN Fin(-1, -num, den, e)
  ELSE Fin(1, num, den, e)

\* x + y of two finite non-zero numbers of the same order, brought to the
\* common denominator x.d * p = y.d * q.
AddScaled(x, y, p, q) ==
  IF ~(Fits(x.n, p) /\ Fits(y.n, q) /\ Fits(x.d, p)) THEN Irr
  ELSE Signed(x.s * x.n * p + y.s * y.n * q, x.d * p, x.e)

\* Half the distance from 1.0 to the next float64, 1.11e-16, in units of u.
HalfUlp == 11

\* x + y where y is of higher order than x: y is below the last place of x
\* when it is more than one order of u above, or one order of u above and
\* less than HalfUlp * u * x.  Otherwise the sum is not a number of the
\* model.
Absorb(x, y) ==
  IF y.e - x.e >= 3 THEN x
  ELSE IF y.e - x.e = 2 /\ Fits(HalfUlp, x.n)
          /\ CmpRat(y.n, y.d, HalfUlp * x.n, x.d) = -1
  THEN x
  ELSE Irr

Add(x, y) ==
  IF IsIrr(x) \/ IsIrr(y) THEN Irr
  ELSE IF IsNaN(x) \/ IsNaN(y) THEN NaN
  ELSE IF x.k = "inf"
  THEN (IF y.k = "inf" /\ y.s # x.s THEN NaN ELSE x)
  ELSE IF y.k = "inf" THEN y
  ELSE IF x.n = 0 /\ y.n = 0
  THEN (IF x.s = -1 /\ y.s = -1 THEN NegZero ELSE Zero)
  ELSE IF x.n = 0 THEN y
  ELSE IF y.n = 0 THEN x
  ELSE IF x.e < y.e THEN Absorb(x, y)
  ELSE IF y.e < x.e THEN Absorb(y, x)
  ELSE AddScaled(x, y, y.d \div Gcd(x.d, y.d), x.d \div Gcd(x.d, y.d))

Sub(x, y) == Add(x, Neg(y))

\* The number s * (a*b)/(c*d) * u^e.
Ratio(s, a, b, c, d, e) ==
  IF ~(Fits(a, b) /\ Fits(c, d)) THEN Irr ELSE Fin(s, a * b, c * d, e)

Mul(x, y) ==
  IF IsIrr(x) \/ IsIrr(y) THEN Irr
  ELSE IF IsNaN(x) \/ IsNaN(y) THEN NaN
  ELSE IF x.k = "inf" \/ y.k = "inf"
  THEN (IF IsZero(x) \/ IsZero(y) THEN NaN ELSE Inf(x.s * y.s))
  ELSE IF x.n = 0 \/ y.n = 0 THEN Fin(x.s * y.s, 0, 1, 0)
  ELSE Ratio(x.s * y.s, x.n \div Gcd(x.n, y.d), y.n \div Gcd(y.n, x.d),
             x.d \div Gcd(y.n, x.d), y.d \div Gcd(x.n, y.d), x.e + y.e)

Div(x, y) ==
  IF IsIrr(x) \/ IsIrr(y) THEN Irr
  ELSE IF IsNaN(x) \/ IsNaN(y) THEN NaN
  ELSE IF x.k = "inf"
  THEN (IF y.k = "inf" THEN NaN ELSE Inf(x.s * y.s))
  ELSE IF y.k = "inf" THEN Fin(x.s * y.s, 0, 1, 0)
  ELSE IF y.n = 0
  THEN (IF x.n = 0 THEN NaN ELSE Inf(x.s * y.s))
  ELSE IF x.n = 0 THEN Fin(x.s * y.s, 0, 1, 0)
  ELSE Ratio(x.s * y.s, x.n \div Gcd(x.n, y.n), y.d \div Gcd(x.d, y.d),
             x.d \div Gcd(x.d, y.d), y.n \div Gcd(x.n, y.n), x.e - y.e)

\* math.Sqrt
Sqrt(x) ==
  IF IsIrr(x) THEN Irr
  ELSE IF IsNaN(x) THEN NaN
  ELSE IF IsZero(x) THEN x
  ELSE IF x.s = -1 THEN NaN
  ELSE IF x.k = "inf" THEN x
  ELSE IF IsSquare(x.n) /\ IsSquare(x.d) /\ x.e % 2 = 0
  THEN Fin(1, ISqrt(x.n), ISqrt(x.d), x.e \div 2)
  ELSE Irr

\* math.Round: the nearest integer, halves away from zero.  A residue rounds
\* to a zero of its sign; a value of negative order is beyond 2^53 and an
\* integer already.
Round(x) ==
  IF x.k # "fin" THEN x
  ELSE IF x.n = 0 \/ x.e > 0 THEN Fin(x.s, 0, 1, 0)
  ELSE IF x.e < 0 THEN x
  ELSE Fin(x.s, (2 * x.n + x.d) \div (2 * x.d), 1, 0)

Finite(x) == x.k = "fin"
\* Neither factor of the product x*y is zero.
NonZero(x, y) == x.n # 0 /\ y.n # 0
\* x*y as a term of a sum whose leading order is m: a product two orders
\* of u above is below the last place of the sum.
Term(x, y, m) ==
  IF NonZero(x, y) /\ x.e + y.e > m + 3 THEN Zero ELSE Mul(x, y)

\* The sum of the terms of leading order, when it is usable and not zero,
\* and the sum of all the terms otherwise.
Prefer(usable, lead, full) == IF usable /\ ~IsZero(lead) THEN lead ELSE full

Min(m, n) == IF m < n THEN m ELSE n

\* The float64 sum a*b + c*d.
SumProd2(a, b, c, d) ==
  Prefer(Finite(a) /\ Finite(b) /\ Finite(c) /\ Finite(d)
           /\ NonZero(a, b) /\ NonZero(c, d),
         Add(Term(a, b, Min(a.e + b.e, c.e + d.e)),
             Term(c, d, Min(a.e + b.e, c.e + d.e))),
         Add(Mul(a, b), Mul(c, d)))

\* sqrt(x*x + y*y): the square root of a single square is the magnitude,
\* and a square more than one order of u above the other is below its last
\* place.
Hypot(x, y) ==
  IF Finite(x) /\ Finite(y) /\ (IsZero(y) \/ (~IsZero(x) /\ x.e + 1 < y.e))
  THEN Abs(x)
  ELSE IF Finite(x) /\ Finite(y) /\ (IsZero(x) \/ y.e + 1 < x.e)
  THEN Abs(y)
  ELSE Sqrt(SumProd2(x, x, y, y))

(* ----------------------------- s1.Angle ------------------------------- *)

Ang(c, s) == [c |-> c, s |-> s]
NaNAngle == Ang(NaN, NaN)

\* math.Cos and math.Sin of a float64 that holds an angle.
Cos(a) == a.c
Sin(a) == a.s

\* The angle of the point (x, y) at the distance h from the origin.
Direction(x, y, h) == Ang(Div(x, h), Div(y, h))

\* math.Atan2(y, x), with the IEEE cases of zero and infinite operands.
Atan2(y, x) ==
  IF IsIrr(x) \/ IsIrr(y) THEN Ang(Irr, Irr)
  ELSE IF IsNaN(x) \/ IsNaN(y) THEN NaNAngle
  ELSE IF x.k = "inf" /\ y.k = "inf" THEN Ang(Irr, Irr)
  ELSE IF x.k = "inf" THEN Ang(Fin(x.s, 1, 1, 0), Fin(y.s, 0, 1, 0))
  ELSE IF y.k = "inf" THEN Ang(Zero, Fin(y.s, 1, 1, 0))
  ELSE IF IsZero(x) /\ IsZero(y) THEN Ang(Fin(x.s, 1, 1, 0), y)
  ELSE Direction(x, y, Hypot(x, y))

\* math.Copysign applied to an angle in [0, pi]: the sign goes to the sine.
CopysignAngle(a, x) == Ang(IF IsIrr(x) THEN Irr ELSE a.c, Copysign(a.s, x))

\* math.Asin
Asin(v) ==
  IF IsIrr(v) THEN Ang(Irr, Irr)
  ELSE IF IsNaN(v) \/ Lt(One, Abs(v)) THEN NaNAngle
  ELSE Ang(Sqrt(Sub(One, Mul(v, v))), v)

\* math.Tan(math.Pi/4 + psi/2) = (1 + sin psi) / cos psi = cos psi / (1 - sin psi)
TanQuarterPiPlusHalf(psi) ==
  IF Le(Zero, Sin(psi))
  THEN Div(Add(One, Sin(psi)), Cos(psi))
  ELSE Div(Cos(psi), Sub(One, Sin(psi)))

\* math.Log, its result held as ey = e^y: the logarithm of a negative number
\* is NaN, that of either zero is -Inf (ey = 0), that of +Inf is +Inf.
Log(v) ==
  IF IsIrr(v) THEN Irr
  ELSE IF IsNaN(v) THEN NaN
  ELSE IF IsZero(v) THEN Zero
  ELSE IF v.s = -1 THEN NaN
  ELSE v

\* math.Exp of a y held as ey.
Exp(y) == y

\* The angle of cosine 2e / q and sine (e2 - 1) / q.
Gudermann(e, e2, q) == Ang(Div(Mul(Rat(2, 1), e), q), Div(Sub(e2, One), q))

\* 2*math.Atan(e) - math.Pi/2: the angle psi with tan(pi/4 + psi/2) = e,
\* sin psi = (e^2 - 1) / (e^2 + 1) and cos psi = 2e / (e^2 + 1).
TwoAtanMinusHalfPi(e) ==
  IF IsIrr(e) THEN Ang(Irr, Irr)
  ELSE IF IsNaN(e) THEN NaNAngle
  ELSE IF e.k = "inf" THEN Ang(Zero, Fin(e.s, 1, 1, 0))
  ELSE Gudermann(e, Mul(e, e), Add(Mul(e, e), One))

(* ----------------------------- r3.Vector ------------------------------ *)

Vec(x, y, z) == [X |-> x, Y |-> y, Z |-> z]

VAdd(v, w) == Vec(Add(v.X, w.X), Add(v.Y, w.Y), Add(v.Z, w.Z))
VSub(v, w) == Vec(Sub(v.X, w.X), Sub(v.Y, w.Y), Sub(v.Z, w.Z))
VMul(v, m) == Vec(Mul(m, v.X), Mul(m, v.Y), Mul(m, v.Z))
\* The least order in u of the non-zero products of the dot product v.w
\* (MaxOrder when every product is zero).
MaxOrder == 1000
Order(x, y) == IF NonZero(x, y) THEN x.e + y.e ELSE MaxOrder
DotOrder(v, w) ==
  Min(Order(v.X, w.X), Min(Order(v.Y, w.Y), Order(v.Z, w.Z)))

FiniteV(v) == Finite(v.X) /\ Finite(v.Y) /\ Finite(v.Z)

\* The float64 sum v.X*w.X + v.Y*w.Y + v.Z*w.Z.
VDot(v, w) ==
  Prefer(FiniteV(v) /\ FiniteV(w),
         Add(Add(Term(v.X, w.X, DotOrder(v, w)), Term(v.Y, w.Y, DotOrder(v, w))),
             Term(v.Z, w.Z, DotOrder(v, w))),
         Add(Add(Mul(v.X, w.X), Mul(v.Y, w.Y)), Mul(v.Z, w.Z)))

\* x*y when it is of the order m, and when it is above it.
TermAt(x, y, m) == IF NonZero(x, y) /\ x.e + y.e = m THEN Mul(x, y) ELSE Zero
TermAbove(x, y, m) == IF NonZero(x, y) /\ x.e + y.e > m THEN Term(x, y, m) ELSE Zero

\* The terms of v.w of leading order, and the others.
DotLead(v, w) ==
  Add(Add(TermAt(v.X, w.X, DotOrder(v, w)), TermAt(v.Y, w.Y, DotOrder(v, w))),
      TermAt(v.Z, w.Z, DotOrder(v, w)))
DotRest(v, w) ==
  Add(Add(TermAbove(v.X, w.X, DotOrder(v, w)), TermAbove(v.Y, w.Y, DotOrder(v, w))),
      TermAbove(v.Z, w.Z, DotOrder(v, w)))

\* The float64 sum 1 + v.w.  A dot product such as -1 - 196 u, which float64
\* holds and the model does not, is added to 1 by its terms of leading order
\* first.
OnePlusDot(v, w) ==
  IF FiniteV(v) /\ FiniteV(w) /\ IsIrr(VDot(v, w))
  THEN Add(Add(One, DotLead(v, w)), DotRest(v, w))
  ELSE Add(One, VDot(v, w))

VCross(v, w) ==
  Vec(SumProd2(v.Y, w.Z, Neg(v.Z), w.Y),
      SumProd2(v.Z, w.X, Neg(v.X), w.Z),
      SumProd2(v.X, w.Y, Neg(v.Y), w.X))

\* x as a term of a sum of squares whose leading order is m: a square more
\* than one order of u above is below the last place of the sum.
Lead(x, m) == IF x.n # 0 /\ x.e + x.e > m + 2 THEN Zero ELSE Abs(x)

\* sqrt(a*a + b*b + c*c) of three magnitudes: the square root of a single
\* square is the magnitude.
Norm3(a, b, c) ==
  IF IsZero(b) /\ IsZero(c) THEN a
  ELSE IF IsZero(a) /\ IsZero(c) THEN b
  ELSE IF IsZero(a) /\ IsZero(b) THEN c
  ELSE Sqrt(Add(Add(Mul(a, a), Mul(b, b)), Mul(c, c)))

\* sqrt(v.X*v.X + v.Y*v.Y + v.Z*v.Z)
VNorm(v) ==
  IF ~FiniteV(v) THEN Sqrt(VDot(v, v))
  ELSE Norm3(Lead(v.X, DotOrder(v, v)), Lead(v.Y, DotOrder(v, v)),
             Lead(v.Z, DotOrder(v, v)))

\* v scaled to the length 1 from the length n.
Scaled(v, n) ==
  IF Eq(n, Zero) THEN Vec(Zero, Zero, Zero) ELSE VMul(v, Div(One, n))

VNormalize(v) == Scaled(v, VNorm(v))

VAngle(v, w) == Atan2(VNorm(VCross(v, w)), VDot(v, w))

(* --------------------------------- s2 --------------------------------- *)

LatLng(lat, lng) == [Lat |-> lat, Lng |-> lng]

PointFromLatLng(ll) ==
  Vec(Mul(Cos(ll.Lng), Cos(ll.Lat)), Mul(Sin(ll.Lng), Cos(ll.Lat)),
      Sin(ll.Lat))

LatLngFromPoint(p) ==
  LatLng(Atan2(p.Z, Hypot(p.X, p.Y)),
         Atan2(p.Y, p.X))

\* The rotation of center + dx, dx perpendicular to axis.
rotateFrom(axis, angle, center, dx) ==
  VNormalize(VAdd(VAdd(VMul(dx, Cos(angle)),
                       VMul(VCross(axis, dx), Sin(angle))),
                  center))

\* The rotation of p, whose projection on axis is center.
rotateAbout(p, axis, angle, center) ==
  rotateFrom(axis, angle, center, VSub(p, center))

\* s2.Rotate: p rotated around axis by angle, counterclockwise.
Rotate(p, axis, angle) ==
  rotateAbout(p, axis, angle, VMul(axis, VDot(p, axis)))

HasIrrV(v) == IsIrr(v.X) \/ IsIrr(v.Y) \/ IsIrr(v.Z)
HasIrrA(a) == IsIrr(a.c) \/ IsIrr(a.s)

(* --------------------------------- gm --------------------------------- *)

\* const epsilon = 1e-15, in units of u = 1e-17
epsilon == 100

\* approxEqual: r3.Vector's ApproxEqual with the tolerance epsilon.
approxEqual(a, b) ==
  /\ Lt(Abs(Sub(a.X, b.X)), Res(epsilon))
  /\ Lt(Abs(Sub(a.Y, b.Y)), Res(epsilon))
  /\ Lt(Abs(Sub(a.Z, b.Z)), Res(epsilon))

\* One component of snapToInts: x, or math.Round(x) when x is within epsilon.
snapComponent(x) ==
  IF Lt(Abs(Sub(x, Round(x))), Res(epsilon)) THEN Round(x) ELSE x

\* snapToInts: v with any component approximately equal to an integer
\* rounded to that integer.
snapToInts(v) == Vec(snapComponent(v.X), snapComponent(v.Y), snapComponent(v.Z))

\* The zero value of type GeneralizedMercator.
ZeroVec == Vec(Zero, Zero, Zero)
ZeroGM == [pos |-> ZeroVec, neg |-> ZeroVec,
           i |-> ZeroVec, j |-> ZeroVec, k |-> ZeroVec, t |-> Zero]

\* The positive pole stored as converted, without snapToInts.
newPosUnsnapped(pos) == PointFromLatLng(pos)

\* The stored poles of New(pos, neg).
newPos(pos) == snapToInts(PointFromLatLng(pos))
newNeg(neg) == snapToInts(PointFromLatLng(neg))

\* New with the test for indistinguishable poles taken on the antipode of neg.
newPanicsAtAntipode(pos, neg) ==
  approxEqual(newPos(pos), VMul(newNeg(neg), Rat(-1, 1)))

\* New panics: "indistinguishable poles".
newPanics(pos, neg) == approxEqual(newPos(pos), newNeg(neg))

\* The case of the outer switch of New: Pos and Neg are antipodes.
antipodes(pos, neg) == approxEqual(pos, VMul(neg, Rat(-1, 1)))

\* The i axis with the case pos.Z == 0 tested before the case pos.X == 0.
newIZFirst(pos, neg) ==
  IF antipodes(pos, neg)
  THEN IF Eq(pos.Z, Zero) THEN Vec(Zero, Zero, One)
       ELSE IF Eq(pos.X, Zero) THEN Vec(One, Zero, Zero)
       ELSE VNormalize(VCross(Vec(Zero, pos.Z, Zero), pos))
  ELSE VNormalize(VAdd(pos, neg))

\* The i axis with the operands of the cross product exchanged.
newICrossExchanged(pos, neg) ==
  IF antipodes(pos, neg)
  THEN IF Eq(pos.X, Zero) THEN Vec(One, Zero, Zero)
       ELSE IF Eq(pos.Z, Zero) THEN Vec(Zero, Zero, One)
       ELSE VNormalize(VCross(pos, Vec(Zero, pos.Z, Zero)))
  ELSE VNormalize(VAdd(pos, neg))

\* The i axis chosen by New from the stored poles.
newI(pos, neg) ==
  IF antipodes(pos, neg)
  THEN IF Eq(pos.X, Zero) THEN Vec(One, Zero, Zero)
       ELSE IF Eq(pos.Z, Zero) THEN Vec(Zero, Zero, One)
       ELSE VNormalize(VCross(Vec(Zero, pos.Z, Zero), pos))
  ELSE VNormalize(VAdd(pos, neg))

\* The pole p of the earlier version of New, given the coordinates of the
\* poles: pos unless its latitude is negative (a latitude within
\* (-math.Pi, math.Pi) is negative when its sine is).
newP(pos, neg) == IF Lt(Sin(pos.Lat), Zero) THEN neg ELSE pos

\* math.Tan.
Tan(a) == Div(Sin(a), Cos(a))

\* The latitude phi of i in the earlier version of New.
newPhi(p) == Atan2(Neg(Cos(p.Lng)), Tan(p.Lat))

\* The i axis of the earlier version of New in the third antipodal case.
newIAtPhi(phi) == Vec(Cos(phi), Zero, Sin(phi))

\* t, the distance to the intersection line of the tangent planes.
newT(pos, neg) ==
  IF antipodes(pos, neg) THEN Inf(1)
  ELSE Div(VNorm(VAdd(pos, neg)), OnePlusDot(pos, neg))

\* The frame with j taken as i x k.
newAxesJReversed(P, N, i, k) ==
  [pos |-> P, neg |-> N, i |-> i, j |-> VCross(i, k), k |-> k,
   t |-> newT(P, N)]

\* The frame of the stored poles P and N and the axes i and k.
newAxes(P, N, i, k) ==
  [pos |-> P, neg |-> N, i |-> i, j |-> VCross(k, i), k |-> k,
   t |-> newT(P, N)]

\* The frame of the stored poles P and N.
newFrame(P, N) == newAxes(P, N, newI(P, N), VNormalize(VSub(P, N)))

\* The frame New returns when it does not panic.
newGM(pos, neg) == newFrame(newPos(pos), newNeg(neg))

\* r2.Point
Point(x, y) == [X |-> x, Y |-> y]

\* The float64 0 as an angle, and y = +Inf and y = -Inf as ey.
ZeroAngle == Ang(One, Zero)
PosInfY == Inf(1)
NegInfY == Zero

\* The positive pole case of Project with == in place of approxEqual.
projectAtPosExact(g, P) == P = g.pos

\* The two pole cases of Project.
projectAtPos(g, P) == approxEqual(P, g.pos)
projectAtNeg(g, P) == approxEqual(P, g.neg)

\* The rotation angle beta of Project.
projectBeta(g, P) ==
  CopysignAngle(
    VAngle(VCross(VSub(g.i, VMul(P, Div(One, g.t))), g.j), g.k),
    VDot(P, g.k))

\* P - C, P less its component C along k'.
projectLessC(P, kprime) == VSub(P, VMul(kprime, VDot(P, kprime)))

\* The angle psi of Project, D being P - C.
projectPsi(g, P, D) == CopysignAngle(VAngle(P, D), VDot(P, g.k))

\* The projected point with x left without the sign of (P - C).j.
projectPlanarUnsigned(g, P, iprime, D) ==
  Point(VAngle(iprime, D), Log(TanQuarterPiPlusHalf(projectPsi(g, P, D))))

\* The projected point of P, D being P - C.
projectPlanar(g, P, iprime, D) ==
  Point(CopysignAngle(VAngle(iprime, D), VDot(D, g.j)),
        Log(TanQuarterPiPlusHalf(projectPsi(g, P, D))))

\* Project with the rotated axes i' and k'.
projectRotated(g, P, iprime, kprime) ==
  projectPlanar(g, P, iprime, projectLessC(P, kprime))

\* Project with the rotation angle beta.
projectWith(g, P, beta) ==
  projectRotated(g, P, Rotate(g.i, g.j, beta), Rotate(g.k, g.j, beta))

\* Project of the point P on the sphere.
projectPoint(g, P) ==
  IF projectAtPos(g, P) THEN Point(ZeroAngle, PosInfY)
  ELSE IF projectAtNeg(g, P) THEN Point(ZeroAngle, NegInfY)
  ELSE projectWith(g, P, projectBeta(g, P))

\* Project: ll as a projected 2D point.
project(g, ll) == projectPoint(g, PointFromLatLng(ll))

\* math.IsInf(p.Y, sign) on a y held as ey.
YIsInf(y, sign) == IF sign = 1 THEN IsInf(y, 1) ELSE IsZero(y)

\* The point of the sphere at x and psi, with the rotated axes i' and k'.
unprojectRotated(x, psi, iprime, kprime) ==
  VAdd(VMul(Rotate(iprime, kprime, x), Cos(psi)), VMul(kprime, Sin(psi)))

\* Unproject with the rotation angle beta.
unprojectWith(g, x, psi, beta) ==
  unprojectRotated(x, psi, Rotate(g.i, g.j, beta), Rotate(g.k, g.j, beta))

\* Unproject with the latitude psi above the projective equator.
unprojectAt(g, x, psi) == unprojectWith(g, x, psi, Asin(Div(Sin(psi), g.t)))

\* Unproject with the poles of its two infinite cases exchanged.
unprojectSwapped(g, p) ==
  IF YIsInf(p.Y, 1) THEN LatLngFromPoint(g.neg)
  ELSE IF YIsInf(p.Y, -1) THEN LatLngFromPoint(g.pos)
  ELSE LatLngFromPoint(unprojectAt(g, p.X, TwoAtanMinusHalfPi(Exp(p.Y))))

\* Unproject: the location on the sphere of a projected point p.
unproject(g, p) ==
  IF YIsInf(p.Y, 1) THEN LatLngFromPoint(g.pos)
  ELSE IF YIsInf(p.Y, -1) THEN LatLngFromPoint(g.neg)
  ELSE LatLngFromPoint(unprojectAt(g, p.X, TwoAtanMinusHalfPi(Exp(p.Y))))

(* ------------------------------- inputs ------------------------------- *)

\* The largest number of float64 steps below math.Pi/2 a latitude is taken
\* at, and the steps taken: the cosine of the latitude is within epsilon of 0
\* up to 4 steps, just outside at 5, and twice outside at 9.
MaxUlps == 9
Ulps == {0, 1, 4, 5, MaxUlps}

\* The float64 math.Pi/2 - n ulp as a latitude: its sine rounds to 1 and its
\* cosine is 6.123e-17 + n * 2.2204e-16 (6 u, 28 u, 94 u, 117 u, 205 u).
NearHalfPi(n) == Ang(Res((6123 + 22204 * n) \div 1000), One)

HalfPi == NearHalfPi(0)
MinusHalfPi == Ang(Res(6), Rat(-1, 1))
\* math.Pi: its sine is 1.2246e-16.
Pi == Ang(Rat(-1, 1), Res(12))
\* atan(3/4), atan(4/3), atan(7/24) and their mirror images.
A37 == Ang(Rat(4, 5), Rat(3, 5))
A53 == Ang(Rat(3, 5), Rat(4, 5))
A16 == Ang(Rat(24, 25), Rat(7, 25))
MinusA37 == Ang(Rat(4, 5), Rat(-3, 5))
A37MinusPi == Ang(Rat(-4, 5), Rat(-3, 5))
MinusZeroAngle == Ang(One, NegZero)

\* Coordinates on the grid of exact sines and cosines.
Grid ==
  {LatLng(HalfPi, ZeroAngle), LatLng(MinusHalfPi, ZeroAngle),
   LatLng(ZeroAngle, ZeroAngle), LatLng(ZeroAngle, Pi),
   LatLng(ZeroAngle, HalfPi), LatLng(ZeroAngle, MinusHalfPi),
   LatLng(A37, ZeroAngle), LatLng(MinusA37, ZeroAngle),
   LatLng(MinusA37, Pi), LatLng(A37, Pi),
   LatLng(ZeroAngle, A37), LatLng(ZeroAngle, MinusA37),
   LatLng(ZeroAngle, A37MinusPi),
   LatLng(A16, HalfPi)}

\* Two coordinates within 2e-15 of the points (0, 1, 0) and (0, -1, 0), one
\* south and one north of the equator.
NearEast == LatLng(Ang(One, Res(-119)), Ang(Res(-120), One))
NearWest == LatLng(Ang(One, Res(126)), Ang(Res(120), Rat(-1, 1)))

\* The coordinates given to New as poles: the grid, the latitudes next to
\* math.Pi/2 on the meridians 0 and math.Pi, and the two next to the y axis.
Poles ==
  Grid
  \cup {NearEast, NearWest}
  \cup {LatLng(NearHalfPi(n), ZeroAngle) : n \in Ulps}
  \cup {LatLng(NearHalfPi(n), Pi) : n \in Ulps}

\* The coordinates given to Project, besides the poles of the frame.
Locations ==
  {LatLng(HalfPi, ZeroAngle), LatLng(MinusHalfPi, ZeroAngle),
   LatLng(ZeroAngle, ZeroAngle), LatLng(ZeroAngle, Pi),
   LatLng(ZeroAngle, HalfPi), LatLng(ZeroAngle, MinusA37),
   LatLng(A37, ZeroAngle), LatLng(MinusA37, Pi), LatLng(A16, HalfPi),
   LatLng(A53, ZeroAngle), LatLng(A37, A37),
   LatLng(ZeroAngle, MinusZeroAngle),
   LatLng(NearHalfPi(MaxUlps), ZeroAngle)}

\* The planar points given to Unproject: x, and y as ey.
PlanarX == {ZeroAngle, HalfPi, Pi, MinusA37}
PlanarY == {NegInfY, Rat(1, 2), One, Rat(2, 1), PosInfY}
Planar == {Point(x, y) : x \in PlanarX, y \in PlanarY}

\* The values the model's numbers can hold.
RepresentableGM(g) ==
  ~(HasIrrV(g.pos) \/ HasIrrV(g.neg) \/ HasIrrV(g.i) \/ HasIrrV(g.j)
    \/ HasIrrV(g.k) \/ IsIrr(g.t))
RepresentablePoint(p) == ~(HasIrrA(p.X) \/ IsIrr(p.Y))
RepresentableLatLng(ll) == ~(HasIrrA(ll.Lat) \/ HasIrrA(ll.Lng))

(* ---------------------------- state machine --------------------------- *)

\* The number of calls of Project and Unproject made on one frame.
MaxCalls == 2

VARIABLES
  gm,     \* the frame: *GeneralizedMercator
  pc,     \* "start": no frame yet; "built": New returned; "panicked"
  args,   \* the arguments New was called with
  last,   \* the last call of Project or Unproject, with its result
  calls,  \* the number of calls of Project and Unproject so far
  threads \* the call each thread runs on the frame, with the fields it read

vars == <<gm, pc, args, last, calls, threads>>

NoCall == [op |-> "none", ll |-> LatLng(ZeroAngle, ZeroAngle),
           p |-> Point(ZeroAngle, One)]

\* The number of threads that call Project and Unproject on one frame.
MaxThreads == 2
Threads == 1..MaxThreads

\* A thread that has not called: no field of the frame read.
Idle == [pc |-> "idle", op |-> "none", ll |-> NoCall.ll, p |-> NoCall.p,
         seen |-> ZeroGM, n |-> 0]

Init ==
  /\ gm = ZeroGM
  /\ pc = "start"
  /\ args = [pos |-> LatLng(ZeroAngle, ZeroAngle),
             neg |-> LatLng(ZeroAngle, ZeroAngle)]
  /\ last = NoCall
  /\ calls = 0
  /\ threads = [t \in Threads |-> Idle]

\* New(pos, neg) panics and no frame is returned.
NewPanic(pos, neg) ==
  /\ pc = "start"
  /\ newPanics(pos, neg)
  /\ pc' = "panicked"
  /\ args' = [pos |-> pos, neg |-> neg]
  /\ UNCHANGED <<gm, last, calls, threads>>

\* New(pos, neg) returns a frame.
New(pos, neg) ==
  /\ pc = "start"
  /\ ~newPanics(pos, neg)
  /\ gm' = newGM(pos, neg)
  /\ RepresentableGM(gm')
  /\ pc' = "built"
  /\ args' = [pos |-> pos, neg |-> neg]
  /\ UNCHANGED <<last, calls, threads>>

\* Project panicking at the positive pole instead of returning y = +Inf.
ProjectOrPanic(ll) ==
  /\ pc = "built"
  /\ calls < MaxCalls
  /\ last' = [op |-> "Project", ll |-> ll, p |-> project(gm, ll)]
  /\ RepresentablePoint(last'.p)
  /\ pc' = IF projectAtPos(gm, PointFromLatLng(ll)) THEN "panicked" ELSE pc
  /\ calls' = calls + 1
  /\ UNCHANGED <<gm, args, threads>>

\* Project returning the point it returned last instead of computing it.
ProjectCached(ll) ==
  /\ pc = "built"
  /\ calls < MaxCalls
  /\ last' = [op |-> "Project", ll |-> ll,
              p |-> IF last.op = "Project" THEN last.p ELSE project(gm, ll)]
  /\ RepresentablePoint(last'.p)
  /\ calls' = calls + 1
  /\ UNCHANGED <<gm, pc, args, threads>>

\* gm.Project(ll)
Project(ll) ==
  /\ pc = "built"
  /\ calls < MaxCalls
  /\ last' = [op |-> "Project", ll |-> ll, p |-> project(gm, ll)]
  /\ RepresentablePoint(last'.p)
  /\ calls' = calls + 1
  /\ UNCHANGED <<gm, pc, args, threads>>

\* Unproject leaving the axes i and k of the frame a quarter turn about j on.
UnprojectStoring(p) ==
  /\ pc = "built"
  /\ calls < MaxCalls
  /\ last' = [op |-> "Unproject", ll |-> unproject(gm, p), p |-> p]
  /\ RepresentableLatLng(last'.ll)
  /\ gm' = [gm EXCEPT !.i = gm.k, !.k = Vec(Neg(gm.i.X), Neg(gm.i.Y), Neg(gm.i.Z))]
  /\ calls' = calls + 1
  /\ UNCHANGED <<pc, args, threads>>

\* gm.Unproject(p)
Unproject(p) ==
  /\ pc = "built"
  /\ calls < MaxCalls
  /\ last' = [op |-> "Unproject", ll |-> unproject(gm, p), p |-> p]
  /\ RepresentableLatLng(last'.ll)
  /\ calls' = calls + 1
  /\ UNCHANGED <<gm, pc, args, threads>>

Next ==
  \/ \E pos \in Poles, neg \in Poles : NewPanic(pos, neg)
  \/ \E pos \in Poles, neg \in Poles : New(pos, neg)
  \/ \E ll \in Locations \cup {args.pos, args.neg} : Project(ll)
  \/ \E p \in Planar : Unproject(p)

Spec == Init /\ [][Next]_vars

(* ------------------------- the frames by their t --------------------- *)

\* Two coordinates 4.4e-8 from the points (0, 1, 0) and (0, -1, 0): their
\* cosine 14 h has the square 196 u, and their coordinate Y, 1 - 98 u before
\* New snaps it, is stored as 1 and -1.
EastJ == LatLng(ZeroAngle, Ang(HalfRes(14), One))
WestJ == LatLng(Ang(One, Res(101)), Ang(HalfRes(-14), Rat(-1, 1)))

\* The coordinates given to New as poles when t is examined.
PolesT == Poles \cup {EastJ, WestJ}

\* New(pos, neg) returns a frame of which the model holds t, whether or not
\* it holds the axes.
NewT(pos, neg) ==
  /\ pc = "start"
  /\ ~newPanics(pos, neg)
  /\ gm' = newGM(pos, neg)
  /\ ~IsIrr(gm'.t)
  /\ pc' = "built"
  /\ args' = [pos |-> pos, neg |-> neg]
  /\ UNCHANGED <<last, calls, threads>>

\* gm.Unproject(p) on such a frame.
UnprojectT(p) ==
  /\ pc = "built"
  /\ calls < MaxCalls
  /\ last' = [op |-> "Unproject", ll |-> unproject(gm, p), p |-> p]
  /\ calls' = calls + 1
  /\ UNCHANGED <<gm, pc, args, threads>>

NextT ==
  \/ \E pos \in PolesT, neg \in PolesT : NewPanic(pos, neg)
  \/ \E pos \in PolesT, neg \in PolesT : NewT(pos, neg)
  \/ \E p \in Planar : UnprojectT(p)

SpecT == Init /\ [][NextT]_vars

(* --------------------------- concurrent calls ------------------------- *)

\* The fields of the frame Project reads, in the order it reads them: pos
\* and neg in the two pole cases, then i, t, j and k for beta.
projectReads(c) ==
  IF c.n >= 1 /\ projectAtPos(c.seen, PointFromLatLng(c.ll)) THEN <<"pos">>
  ELSE IF c.n >= 2 /\ projectAtNeg(c.seen, PointFromLatLng(c.ll))
  THEN <<"pos", "neg">>
  ELSE <<"pos", "neg", "i", "t", "j", "k">>

\* The fields of the frame Unproject reads: a pole where y is infinite, else t
\* for beta and i, j and k for the rotated axes.
unprojectReads(c) ==
  IF YIsInf(c.p.Y, 1) THEN <<"pos">>
  ELSE IF YIsInf(c.p.Y, -1) THEN <<"neg">>
  ELSE <<"t", "i", "j", "k">>

reads(c) == IF c.op = "Project" THEN projectReads(c) ELSE unprojectReads(c)

\* The poles, locations and planar points of the concurrent calls.
ConcPoles == {LatLng(A37, ZeroAngle), LatLng(MinusA37, ZeroAngle)}
ConcLocations == {LatLng(ZeroAngle, HalfPi), LatLng(A37, ZeroAngle)}
ConcPlanar == {Point(HalfPi, One), Point(A37, PosInfY)}

\* Thread t calls gm.Project(ll).
CallProject(t, ll) ==
  /\ pc = "built"
  /\ threads[t].pc = "idle"
  /\ threads' = [threads EXCEPT ![t] =
                   [Idle EXCEPT !.pc = "running", !.op = "Project", !.ll = ll]]
  /\ UNCHANGED <<gm, pc, args, last, calls>>

\* Thread t calls gm.Unproject(p).
CallUnproject(t, p) ==
  /\ pc = "built"
  /\ threads[t].pc = "idle"
  /\ threads' = [threads EXCEPT ![t] =
                   [Idle EXCEPT !.pc = "running", !.op = "Unproject", !.p = p]]
  /\ UNCHANGED <<gm, pc, args, last, calls>>

\* c after its next read of a field of the frame g.
readNext(c, g) ==
  [c EXCEPT !.seen = [c.seen EXCEPT ![reads(c)[c.n + 1]] = g[reads(c)[c.n + 1]]],
            !.n = c.n + 1]

\* The call of thread t reads the next field of the frame.
Read(t) ==
  /\ threads[t].pc = "running"
  /\ threads[t].n < Len(reads(threads[t]))
  /\ threads' = [threads EXCEPT ![t] = readNext(threads[t], gm)]
  /\ UNCHANGED <<gm, pc, args, last, calls>>

\* c returned, with its result computed from the fields it read.
returned(c) ==
  IF c.op = "Project"
  THEN [c EXCEPT !.pc = "done", !.p = project(c.seen, c.ll)]
  ELSE [c EXCEPT !.pc = "done", !.ll = unproject(c.seen, c.p)]

\* Return that keeps the axes it worked with in the frame.
ReturnStoring(t) ==
  /\ threads[t].pc = "running"
  /\ threads[t].n = Len(reads(threads[t]))
  /\ threads' = [threads EXCEPT ![t] = returned(threads[t])]
  /\ RepresentablePoint(threads'[t].p)
  /\ RepresentableLatLng(threads'[t].ll)
  /\ gm' = [gm EXCEPT !.i = gm.k, !.k = Vec(Neg(gm.i.X), Neg(gm.i.Y), Neg(gm.i.Z))]
  /\ UNCHANGED <<pc, args, last, calls>>

\* The call of thread t returns.
Return(t) ==
  /\ threads[t].pc = "running"
  /\ threads[t].n = Len(reads(threads[t]))
  /\ threads' = [threads EXCEPT ![t] = returned(threads[t])]
  /\ RepresentablePoint(threads'[t].p)
  /\ RepresentableLatLng(threads'[t].ll)
  /\ UNCHANGED <<gm, pc, args, last, calls>>

NextConc ==
  \/ \E pos \in ConcPoles, neg \in ConcPoles : NewPanic(pos, neg)
  \/ \E pos \in ConcPoles, neg \in ConcPoles : New(pos, neg)
  \/ \E t \in Threads, ll \in ConcLocations : CallProject(t, ll)
  \/ \E t \in Threads, p \in ConcPlanar : CallUnproject(t, p)
  \/ \E t \in Threads : Read(t)
  \/ \E t \in Threads : Return(t)

SpecConc == Init /\ [][NextConc]_vars

(* ------------------------------- properties --------------------------- *)

NewArgs == [pos |-> PointFromLatLng(args.pos), neg |-> PointFromLatLng(args.neg)]

\* C1: for every coordinate P, New(P, P) panics with "indistinguishable
\* poles": no frame is returned for equal arguments and no returned frame has
\* pos equal to neg.
C1_NewOfEqualPolesPanics ==
  /\ pc = "start" => \A P \in Poles : newPanics(P, P)
  /\ pc = "built" => args.pos # args.neg /\ gm.pos # gm.neg

C1_Witness == pc = "panicked" /\ args.pos = args.neg

\* C2: whenever the unit vectors of P and Q, as converted from latitude and
\* longitude and before snapping, differ by less than 1e-15 in every
\* component, New(P, Q) fails: it returns no frame.
C2_NewFailsWithinTolerance ==
  approxEqual(NewArgs.pos, NewArgs.neg) => pc # "built"

\* C3: indistinguishable poles are the only error of New: whenever the unit
\* vectors of P and Q differ by at least 1e-15 in some component, New(P, Q)
\* does not panic.
C3_NewPanicsOnlyWithinTolerance ==
  pc = "panicked" => approxEqual(NewArgs.pos, NewArgs.neg)

\* C4: on every frame returned by New(a, b), Project(a) returns exactly
\* (0, +Inf), though the frame stores the snapped vector of a and Project
\* compares the unsnapped one.
C4_ProjectOfPosArgument ==
  (last.op = "Project" /\ last.ll = args.pos)
    => last.p = Point(ZeroAngle, PosInfY)

C4_Witness ==
  /\ last.op = "Project"
  /\ last.ll = args.pos
  /\ gm.pos # NewArgs.pos
  /\ last.p = Point(ZeroAngle, PosInfY)

\* C5: on every frame returned by New(a, b), Project(b) returns exactly
\* (0, -Inf): b is never caught by the positive pole test.
C5_ProjectOfNegArgument ==
  (last.op = "Project" /\ last.ll = args.neg)
    => last.p = Point(ZeroAngle, NegInfY)

\* C6: Unproject((x, +Inf)) returns the coordinates of the positive pole of
\* the frame and Unproject((x, -Inf)) those of its negative pole, for every x.
C6_UnprojectOfInfiniteY ==
  last.op = "Unproject" =>
    /\ YIsInf(last.p.Y, 1) => last.ll = LatLngFromPoint(gm.pos)
    /\ YIsInf(last.p.Y, -1) => last.ll = LatLngFromPoint(gm.neg)

C6_Witness ==
  /\ last.op = "Unproject"
  /\ YIsInf(last.p.Y, -1)
  /\ last.p.X # ZeroAngle
  /\ last.ll = LatLngFromPoint(gm.neg)
  /\ last.ll # LatLngFromPoint(gm.pos)

\* The location Unproject returns for the point Project returned last, and the
\* point Project returns for the location Unproject returned last.
Back == unproject(gm, last.p)
Forth == project(gm, last.ll)

\* C7: on every frame and for every point P of the sphere other than the two
\* poles, Unproject(Project(P)) equals P as a unit vector within 1e-15 in
\* every component.
C7_UnprojectOfProject ==
  (/\ last.op = "Project"
   /\ ~projectAtPos(gm, PointFromLatLng(last.ll))
   /\ ~projectAtNeg(gm, PointFromLatLng(last.ll))
   /\ RepresentableLatLng(Back)
   /\ ~HasIrrV(PointFromLatLng(Back)))
    => approxEqual(PointFromLatLng(Back), PointFromLatLng(last.ll))

\* x less its part of the order u^2 = 1e-34 and below, which no comparison
\* within 1e-15 sees.
coarse(x) == IF Finite(x) /\ x.e >= 4 THEN Fin(x.s, 0, 1, 0) ELSE x

\* p and q are equal within 1e-15: x as an angle modulo 2*pi, by its cosine
\* and sine, and y by ey, |ey - ey'| < 1e-15 * ey'.
planarEqual(p, q) ==
  /\ Lt(Abs(Sub(coarse(p.X.c), coarse(q.X.c))), Res(epsilon))
  /\ Lt(Abs(Sub(coarse(p.X.s), coarse(q.X.s))), Res(epsilon))
  /\ Lt(Abs(Sub(p.Y, q.Y)), Mul(Res(epsilon), q.Y))

\* C8: on every frame and for every finite planar point (x, y),
\* Project(Unproject((x, y))) equals (x, y) within 1e-15, x modulo 2*pi.
C8_ProjectOfUnproject ==
  (/\ last.op = "Unproject"
   /\ ~YIsInf(last.p.Y, 1)
   /\ ~YIsInf(last.p.Y, -1)
   /\ RepresentablePoint(Forth))
    => planarEqual(Forth, last.p)

C10_FrameKeepsNewValues ==
  pc = "built" => gm = newGM(args.pos, args.neg)

C10_Witness ==
  /\ calls = MaxCalls
  /\ last.op = "Unproject"
  /\ gm = newGM(args.pos, args.neg)

\* The frame New returned.
Built == newGM(args.pos, args.neg)

\* The fields a call has read so far hold the values New set.
readsWhole(c) ==
  \A m \in 1..c.n : c.seen[reads(c)[m]] = Built[reads(c)[m]]

\* The result of a call that returned is that of the same call run alone.
resultAlone(c) ==
  /\ c.op = "Project" => c.p = project(Built, c.ll)
  /\ c.op = "Unproject" => c.ll = unproject(Built, c.p)

\* C11: calls of Project and Unproject that run concurrently on one frame, in
\* any interleaving of their reads of the frame, each return the result of the
\* same call run alone, and no call reads a field other than as New set it.
C11_ConcurrentCallsAsAlone ==
  \A t \in Threads :
    /\ threads[t].pc # "idle" => readsWhole(threads[t])
    /\ threads[t].pc = "done" => resultAlone(threads[t])

C11_Witness ==
  /\ \A t \in Threads : threads[t].pc = "done"
  /\ threads[1].op = "Project"
  /\ threads[1].n = 6
  /\ threads[2].op = "Unproject"
  /\ threads[2].n = 4

near(x, y) == Lt(Abs(Sub(coarse(x), coarse(y))), Res(epsilon))

\* C13: every frame New returns has t >= 1, and t is +Inf exactly when the
\* stored poles are antipodes within the tolerance (pos = -neg in every
\* component within 1e-15).
C13_TAtLeastOneInfiniteIffAntipodes ==
  pc = "built" =>
    /\ Le(One, gm.t)
    /\ IsInf(gm.t, 1) <=> antipodes(gm.pos, gm.neg)

\* v and w are orthogonal, and v has the length 1, within 1e-15.
orthogonal(v, w) == near(VDot(v, w), Zero)
unit(v) == near(VNorm(v), One)

\* C14: every frame New returns has i, j and k pairwise orthogonal and of
\* length 1, right-handed: i x j = k and j = k x i.
C14_OrthonormalRightHanded ==
  pc = "built" =>
    /\ orthogonal(gm.i, gm.j) /\ orthogonal(gm.j, gm.k) /\ orthogonal(gm.i, gm.k)
    /\ unit(gm.i) /\ unit(gm.j) /\ unit(gm.k)
    /\ approxEqual(VCross(gm.i, gm.j), gm.k)
    /\ gm.j = VCross(gm.k, gm.i)

\* C15: every frame New returns has k = normalize(pos - neg), of positive dot
\* product with pos and of negative dot product with neg.
C15_KFromNegTowardPos ==
  pc = "built" =>
    /\ gm.k = VNormalize(VSub(gm.pos, gm.neg))
    /\ Lt(Zero, VDot(gm.k, gm.pos))
    /\ Lt(VDot(gm.k, gm.neg), Zero)

\* C16: where the stored poles are not antipodes, i = normalize(pos + neg),
\* at the same distance from both poles, and t = |pos + neg| / (1 + pos.neg),
\* the secant of the half angle between the poles, which is the angle from i
\* to pos.
C16_BisectorAndSecant ==
  (pc = "built" /\ ~antipodes(gm.pos, gm.neg)) =>
    /\ gm.i = VNormalize(VAdd(gm.pos, gm.neg))
    /\ gm.t = Div(VNorm(VAdd(gm.pos, gm.neg)), Add(One, VDot(gm.pos, gm.neg)))
    /\ near(VDot(gm.i, gm.pos), VDot(gm.i, gm.neg))
    /\ near(Mul(gm.t, VDot(gm.i, gm.pos)), One)

\* C17: for antipodal poles New chooses i in the order: pos.X == 0 gives
\* i = (1, 0, 0); else pos.Z == 0 gives i = (0, 0, 1); else the cross product
\* (0, pos.Z, 0) x pos, normalized.  Where pos.X and pos.Z are both 0 the
\* first case wins.
C17_AntipodalIInOrder ==
  (pc = "built" /\ antipodes(gm.pos, gm.neg)) =>
    /\ Eq(gm.pos.X, Zero) => gm.i = Vec(One, Zero, Zero)
    /\ (~Eq(gm.pos.X, Zero) /\ Eq(gm.pos.Z, Zero)) => gm.i = Vec(Zero, Zero, One)
    /\ (~Eq(gm.pos.X, Zero) /\ ~Eq(gm.pos.Z, Zero)) =>
         gm.i = VNormalize(VCross(Vec(Zero, gm.pos.Z, Zero), gm.pos))

C17_Witness ==
  /\ pc = "built"
  /\ antipodes(gm.pos, gm.neg)
  /\ Eq(gm.pos.X, Zero)
  /\ Eq(gm.pos.Z, Zero)
  /\ gm.i = Vec(One, Zero, Zero)

\* C18: for antipodal poles, in each of the three cases, i is on the
\* projective equator and on the prime meridian: i is orthogonal to pos,
\* i.Y = 0 and i.X >= 0.
C18_AntipodalIOnPrimeMeridian ==
  (pc = "built" /\ antipodes(gm.pos, gm.neg)) =>
    /\ orthogonal(gm.i, gm.pos)
    /\ Eq(gm.i.Y, Zero)
    /\ Le(Zero, gm.i.X)

C18_Witness ==
  /\ pc = "built"
  /\ antipodes(gm.pos, gm.neg)
  /\ ~Eq(gm.pos.X, Zero)
  /\ ~Eq(gm.pos.Z, Zero)
  /\ Lt(Zero, gm.i.X)
  /\ Lt(gm.i.Z, Zero)
  /\ orthogonal(gm.i, gm.pos)

\* The float64 x is -math.Pi: the angles from -pi - 1e-16 to -pi + 3.4e-16
\* round to it, those of cosine -1 and of a sine from -34 u to -0.
isMinusPi(x) ==
  /\ Eq(x.c, Rat(-1, 1))
  /\ Finite(x.s) /\ x.s.s = -1
  /\ (IsZero(x.s) \/ (x.s.e >= 2 /\ Lt(Abs(x.s), Res(34))))

\* C19: for every point of the sphere that is not a pole of the frame,
\* Project returns x in (-pi, pi]: x is never -pi.
C19_XNeverMinusPi ==
  (/\ last.op = "Project"
   /\ ~projectAtPos(gm, PointFromLatLng(last.ll))
   /\ ~projectAtNeg(gm, PointFromLatLng(last.ll)))
    => ~isMinusPi(last.p.X)

\* The classical Mercator projection of ll: x is the longitude and y is
\* ln(tan(pi/4 + lat/2)).
mercator(ll) == Point(ll.Lng, Log(TanQuarterPiPlusHalf(ll.Lat)))

\* New was given the geographic north pole as positive pole and the south
\* pole as negative pole.
geographic ==
  /\ pc = "built"
  /\ args.pos = LatLng(HalfPi, ZeroAngle)
  /\ args.neg = LatLng(MinusHalfPi, ZeroAngle)

\* C20: with the geographic north and south poles as positive and negative
\* pole, Project is the classical Mercator projection; (0, 0) maps to (0, 0)
\* and latitude 0, longitude pi/2 to (pi/2, 0).
C20_ClassicalMercator ==
  (/\ geographic
   /\ last.op = "Project"
   /\ ~projectAtPos(gm, PointFromLatLng(last.ll))
   /\ ~projectAtNeg(gm, PointFromLatLng(last.ll)))
    => /\ planarEqual(last.p, mercator(last.ll))
       /\ last.ll = LatLng(ZeroAngle, ZeroAngle)
            => planarEqual(last.p, Point(ZeroAngle, One))
       /\ last.ll = LatLng(ZeroAngle, HalfPi)
            => planarEqual(last.p, Point(HalfPi, One))

C20_Witness ==
  /\ geographic
  /\ last.op = "Project"
  /\ last.ll = LatLng(A37, A37)
  /\ last.p.Y = Rat(2, 1)
  /\ planarEqual(last.p, mercator(last.ll))

\* The last call is Project of a location whose point is v within 1e-15, and
\* Unproject of the planar point (x, 0).
projectOf(v) ==
  /\ last.op = "Project"
  /\ approxEqual(PointFromLatLng(last.ll), v)
unprojectOfEquator(x) ==
  /\ last.op = "Unproject"
  /\ last.p = Point(x, One)

\* The point Unproject returned last is v within 1e-15.
unprojectedTo(v) == approxEqual(PointFromLatLng(last.ll), v)

\* C21: on every frame the points i, j, -i and -j of the sphere project to
\* (0, 0), (pi/2, 0), (pi, 0) and (-pi/2, 0), Unproject maps these four planar
\* points back to i, j, -i and -j, and every planar point with y = 0
\* unprojects to a point P with P.k = 0.
C21_CentredOnI ==
  /\ projectOf(gm.i) => planarEqual(last.p, Point(ZeroAngle, One))
  /\ projectOf(gm.j) => planarEqual(last.p, Point(HalfPi, One))
  /\ projectOf(VMul(gm.i, Rat(-1, 1)))
       => planarEqual(last.p, Point(Pi, One)) /\ ~isMinusPi(last.p.X)
  /\ projectOf(VMul(gm.j, Rat(-1, 1)))
       => planarEqual(last.p, Point(MinusHalfPi, One))
  /\ unprojectOfEquator(ZeroAngle) => unprojectedTo(gm.i)
  /\ unprojectOfEquator(HalfPi) => unprojectedTo(gm.j)
  /\ unprojectOfEquator(Pi) => unprojectedTo(VMul(gm.i, Rat(-1, 1)))
  /\ unprojectOfEquator(MinusHalfPi) => unprojectedTo(VMul(gm.j, Rat(-1, 1)))
  /\ (last.op = "Unproject" /\ last.p.Y = One)
       => orthogonal(PointFromLatLng(last.ll), gm.k)

\* The point of the sphere Project was last called with, and the angle psi
\* that call computed.
lastP == PointFromLatLng(last.ll)
lastPsi ==
  projectPsi(gm, lastP,
             projectLessC(lastP, Rotate(gm.k, gm.j, projectBeta(gm, lastP))))

\* The last call is Project of a point that is not a pole of the frame.
projectedNonPole ==
  /\ last.op = "Project"
  /\ ~projectAtPos(gm, lastP)
  /\ ~projectAtNeg(gm, lastP)

\* C22: for every point P that is not a pole, the sign of Project(P).y is
\* that of P.k: y > 0 where P.k is positive (1e-15 or more), y < 0 where it is
\* negative, y = 0 within 1e-15 where it is 0; and the angle psi lies in
\* [-pi/2, pi/2], its cosine is not negative.
C22_YSignOfPk ==
  projectedNonPole =>
    /\ Le(Res(epsilon), VDot(lastP, gm.k)) => Lt(One, last.p.Y)
    /\ Le(VDot(lastP, gm.k), Res(-epsilon)) => Lt(last.p.Y, One)
    /\ IsZero(VDot(lastP, gm.k)) => near(last.p.Y, One)
    /\ Le(Zero, Cos(lastPsi))

\* The angle a is 0 within 1e-15: its cosine is 1 and its sine is below 1e-15.
isZeroAngle(a) == near(Cos(a), One) /\ near(Sin(a), Zero)

\* The angle beta of the last call, of Project and of Unproject.
lastProjectBeta == projectBeta(gm, lastP)
lastUnprojectBeta ==
  Asin(Div(Sin(TwoAtanMinusHalfPi(Exp(last.p.Y))), gm.t))

\* The basis rotated by beta about j is the basis of the frame.
unrotated(beta) ==
  /\ approxEqual(Rotate(gm.i, gm.j, beta), gm.i)
  /\ approxEqual(Rotate(gm.k, gm.j, beta), gm.k)

\* C23: on a frame with t = +Inf the angle beta is 0 for every point Project
\* is given and for every planar point of finite y Unproject is given: the
\* rotated basis is that of the frame, i' = i and k' = k, and the y of Project
\* depends on P.k alone, sin(psi) = P.k.
C23_NoRotationAtInfiniteT ==
  (pc = "built" /\ IsInf(gm.t, 1)) =>
    /\ projectedNonPole =>
         /\ isZeroAngle(lastProjectBeta)
         /\ unrotated(lastProjectBeta)
         /\ near(Sin(lastPsi), VDot(lastP, gm.k))
    /\ (last.op = "Unproject" /\ ~YIsInf(last.p.Y, 1) /\ ~YIsInf(last.p.Y, -1)) =>
         /\ isZeroAngle(lastUnprojectBeta)
         /\ unrotated(lastUnprojectBeta)

\* x is an integer, and x is an integer or at least 1e-15 from the nearest one.
isInteger(x) == Finite(x) /\ x = Round(x)
snapped(x) == isInteger(x) \/ ~Lt(Abs(Sub(x, Round(x))), Res(epsilon))
snappedVector(v) == snapped(v.X) /\ snapped(v.Y) /\ snapped(v.Z)

\* ll is on an axis: latitude +-pi/2, or latitude 0 and longitude 0, pi or
\* +-pi/2; v is a unit vector of an axis, of components 0 and +-1.
axisAligned(ll) ==
  \/ ll.Lat \in {HalfPi, MinusHalfPi}
  \/ ll.Lat = ZeroAngle /\ ll.Lng \in {ZeroAngle, MinusZeroAngle, Pi, HalfPi, MinusHalfPi}
onAxis(v) ==
  /\ isInteger(v.X) /\ isInteger(v.Y) /\ isInteger(v.Z)
  /\ Eq(VDot(v, v), One)

\* C24: New snaps both poles before it compares them: in every frame New
\* returns, each component of pos and neg is an integer or at least 1e-15 from
\* the nearest integer; poles given on an axis are stored with components 0
\* and +-1, and opposite poles on an axis take the antipodal case, i = (1, 0, 0)
\* where pos.X is 0 and i = (0, 0, 1) otherwise.
C24_PolesSnappedBeforeTests ==
  pc = "built" =>
    /\ gm.pos = snapToInts(NewArgs.pos) /\ gm.neg = snapToInts(NewArgs.neg)
    /\ snappedVector(gm.pos) /\ snappedVector(gm.neg)
    /\ axisAligned(args.pos) => onAxis(gm.pos)
    /\ axisAligned(args.neg) => onAxis(gm.neg)
    /\ (axisAligned(args.pos) /\ axisAligned(args.neg)
          /\ Eq(VDot(gm.pos, gm.neg), Rat(-1, 1))) =>
         /\ IsInf(gm.t, 1)
         /\ gm.i = IF Eq(gm.pos.X, Zero) THEN Vec(One, Zero, Zero)
                   ELSE Vec(Zero, Zero, One)

C24_Witness ==
  /\ pc = "built"
  /\ args.pos = LatLng(ZeroAngle, Pi)
  /\ args.neg = LatLng(ZeroAngle, ZeroAngle)
  /\ NewArgs.pos.Y = Res(12)
  /\ gm.pos = Vec(Rat(-1, 1), Zero, Zero)
  /\ gm.i = Vec(Zero, Zero, One)

sameAngle(a, b) ==
  /\ near(Cos(a), Cos(b))
  /\ near(Sin(a), Sin(b))
  /\ isMinusPi(a) <=> isMinusPi(b)

\* The documented x of the last call of Project: the longitude of P in the
\* rotated basis, atan2(P.j, P.i').
documentedX ==
  Atan2(VDot(lastP, gm.j), VDot(lastP, Rotate(gm.i, gm.j, lastProjectBeta)))

\* C26: for every point P that is not a pole, the x Project computes,
\* sign((P - C).j) * angle(i', P - C), is the documented longitude of P in
\* the rotated basis, atan2(P.j, P.i').
C26_XIsRotatedLongitude ==
  projectedNonPole => sameAngle(last.p.X, documentedX)

\* The i axis the earlier version of New computes from the arguments of New.
historicalI == newIAtPhi(newPhi(newP(args.pos, args.neg)))

\* New took the third antipodal case.
thirdAntipodalCase ==
  /\ pc = "built"
  /\ antipodes(gm.pos, gm.neg)
  /\ ~Eq(gm.pos.X, Zero)
  /\ ~Eq(gm.pos.Z, Zero)

\* C27: in the third antipodal case (pos.X and pos.Z both nonzero) the i axis
\* that New computes, the normalized cross product of (0, pos.Z, 0) and pos,
\* equals the i axis of the earlier version of New, (cos phi, 0, sin phi)
\* with phi = atan2(-cos(lng), tan(lat)) at the pole of non-negative
\* latitude, for every pair of poles.
C27_HistoricalIAgrees ==
  (thirdAntipodalCase /\ ~HasIrrV(historicalI)) => approxEqual(gm.i, historicalI)

\* The frame of New with the two arguments exchanged.
swapped == newGM(args.neg, args.pos)

\* v == w of Go: the components are equal, a zero of either sign to a zero.
equalVectors(v, w) == Eq(v.X, w.X) /\ Eq(v.Y, w.Y) /\ Eq(v.Z, w.Z)

\* C28: exchanging the two poles mirrors the frame: New(b, a) has the same i
\* and t as New(a, b), pos and neg exchanged, and j and k negated, in every
\* antipodal case and in the non-antipodal case; it panics when New(a, b)
\* does.
C28_SwapMirrorsFrame ==
  /\ pc = "panicked" => newPanics(args.neg, args.pos)
  /\ (pc = "built" /\ RepresentableGM(swapped)) =>
       /\ ~newPanics(args.neg, args.pos)
       /\ equalVectors(swapped.i, gm.i)
       /\ swapped.t = gm.t
       /\ swapped.pos = gm.neg
       /\ swapped.neg = gm.pos
       /\ equalVectors(swapped.j, VMul(gm.j, Rat(-1, 1)))
       /\ equalVectors(swapped.k, VMul(gm.k, Rat(-1, 1)))

\* The last call is Unproject of a point of finite y.
unprojectedFiniteY ==
  last.op = "Unproject" /\ ~YIsInf(last.p.Y, 1) /\ ~YIsInf(last.p.Y, -1)

\* sin(psi) / t of that call.
lastAsinArgument == Div(Sin(TwoAtanMinusHalfPi(Exp(last.p.Y))), gm.t)

\* C29: for every frame New builds and every planar point of finite y, the
\* argument sin(psi) / t that Unproject gives to math.Asin is within
\* [-1, 1], and the angle beta it returns is a number.
C29_ArcsineArgumentInRange ==
  unprojectedFiniteY =>
    /\ Le(Abs(lastAsinArgument), One)
    /\ ~IsNaN(Cos(lastUnprojectBeta))

====
